---- MODULE Spec2Model ----
(***************************************************************************)
(* Model of app.py: the three image-analysis operations                    *)
(* analyze_image_from_url, analyze_image_from_file and                     *)
(* analyze_multiple_images, with the helper encode_image_to_base64.        *)
(*                                                                         *)
(* Python strings are sequences of one-character strings, so that          *)
(* startswith, lower, Path.suffix and f-string concatenation are computed  *)
(* on the characters.  Message fragments that the code only concatenates   *)
(* are kept as one element.  A byte string is a sequence of 0..255.        *)
(* An attribute of the service's response object that may be absent is <<>>*)
(* when absent and <<v>> when present.                                     *)
(***************************************************************************)
EXTENDS Integers, Sequences, FiniteSets, TLC

VARIABLES
    api_key,     \* the process environment's OPENAI_API_KEY (<<>> when unset)
    pc,          \* position of the running operation
    op,          \* which operation runs: "url", "file", "many" ("" when idle)
    sources,     \* image_url / image_path as a one-element list, or image_sources
    prompt,      \* the prompt argument
    detail,      \* the detail argument (single-image operations)
    idx,         \* analyze_multiple_images: sources processed by the for loop
    content,     \* the content list under construction / sent
    mime_type,   \* analyze_image_from_file: the media type selected
    base64_image,\* analyze_image_from_file: the encoded file
    response,    \* <<>> or <<r>>: the object returned by the remote call
    ret,         \* <<>> or <<d>>: the dict returned to the caller
    raised,      \* <<>> or <<e>>: the exception that left the operation
    requests,    \* the requests submitted to the remote service in this call
    events       \* the I/O of this call, in order: getenv, reads, remote calls

vars == <<api_key, pc, op, sources, prompt, detail, idx, content, mime_type,
          base64_image, response, ret, raised, requests, events>>

\* ------------------------------------------------------------------ bounds

\* Longest image_sources list passed to analyze_multiple_images.
MaxSources == 2

\* ----------------------------------------------------------- Python strings

\* str.startswith
startswith(s, prefix) ==
    /\ Len(s) >= Len(prefix)
    /\ SubSeq(s, 1, Len(prefix)) = prefix

\* str.lower, on the letters that occur in the inputs
lower_char(c) ==
    CASE c = "A" -> "a" [] c = "B" -> "b" [] c = "E" -> "e" [] c = "F" -> "f"
      [] c = "G" -> "g" [] c = "H" -> "h" [] c = "I" -> "i" [] c = "J" -> "j"
      [] c = "M" -> "m" [] c = "N" -> "n" [] c = "P" -> "p" [] c = "S" -> "s"
      [] c = "T" -> "t" [] c = "W" -> "w"
      [] OTHER -> c

\* lower, with the case folding forgotten
lower_identity(s) == s

lower(s) == [i \in 1..Len(s) |-> lower_char(s[i])]

\* str.rfind of a single character: the last index holding c, 0 when none
\* (Python's -1; indices here start at 1)
rfind(s, c) ==
    IF \E i \in 1..Len(s) : s[i] = c
    THEN CHOOSE i \in 1..Len(s) : s[i] = c /\ \A j \in (i+1)..Len(s) : s[j] # c
    ELSE 0

\* pathlib: the final path component.  Separators split the path; empty
\* components (doubled or trailing separators) and "." components are dropped.
RECURSIVE path_name_from(_, _, _)
path_name_from(p, i, cur) ==
    \* scans from the right: cur is the component being collected
    IF i = 0 THEN cur
    ELSE IF p[i] = "/"
         THEN IF cur = <<>> \/ cur = <<".">>
              THEN path_name_from(p, i - 1, <<>>)
              ELSE cur
         ELSE path_name_from(p, i - 1, <<p[i]>> \o cur)

path_name(p) ==
    LET n == path_name_from(p, Len(p), <<>>)
    IN  IF n = <<".">> THEN <<>> ELSE n

\* pathlib.PurePath.suffix: from the last dot of the name, unless that dot is
\* the first or the last character of the name
path_suffix(p) ==
    LET name == path_name(p)
        i    == rfind(name, ".")
    IN  IF 1 < i /\ i < Len(name) THEN SubSeq(name, i, Len(name)) ELSE <<>>

\* ------------------------------------------------------------------ base64

b64_alphabet ==
    << "A","B","C","D","E","F","G","H","I","J","K","L","M","N","O","P",
       "Q","R","S","T","U","V","W","X","Y","Z","a","b","c","d","e","f",
       "g","h","i","j","k","l","m","n","o","p","q","r","s","t","u","v",
       "w","x","y","z","0","1","2","3","4","5","6","7","8","9","+","/" >>

b64_char(v) == b64_alphabet[v + 1]

\* base64.b64encode(...).decode('utf-8'): 3 bytes give 4 characters, the
\* last group is padded with "="
RECURSIVE b64encode(_)
b64encode(bytes) ==
    IF Len(bytes) = 0 THEN <<>>
    ELSE IF Len(bytes) = 1 THEN
        << b64_char(bytes[1] \div 4),
           b64_char((bytes[1] % 4) * 16),
           "=", "=" >>
    ELSE IF Len(bytes) = 2 THEN
        << b64_char(bytes[1] \div 4),
           b64_char((bytes[1] % 4) * 16 + bytes[2] \div 16),
           b64_char((bytes[2] % 16) * 4),
           "=" >>
    ELSE
        << b64_char(bytes[1] \div 4),
           b64_char((bytes[1] % 4) * 16 + bytes[2] \div 16),
           b64_char((bytes[2] % 16) * 4 + bytes[3] \div 64),
           b64_char(bytes[3] % 64) >>
        \o b64encode(SubSeq(bytes, 4, Len(bytes)))

\* ------------------------------------------------------------- environment

\* The image sources the operations are called with.
p_a_png   == <<"a", ".", "p", "n", "g">>
p_b_JPG   == <<"b", ".", "J", "P", "G">>
p_c_jpeg  == <<"c", ".", "j", "p", "e", "g">>
p_d_GiF   == <<"d", ".", "G", "i", "F">>
p_e_WEBP  == <<"e", ".", "W", "E", "B", "P">>
p_f_bmp   == <<"f", ".", "b", "m", "p">>
p_g       == <<"g">>
p_dotpng  == <<".", "p", "n", "g">>
p_dir     == <<"i", ".", "p", "n", "g", "/", "j">>
p_k_jpg   == <<"k", ".", "j", "p", "g">>
p_m_gif   == <<"m", ".", "g", "i", "f">>
p_s_png   == <<"s", ".", "p", "n", "g">>
p_HTTP    == <<"H", "T", "T", "P", ":", "/", "/", "t", ".", "p", "n", "g">>
u_http    == <<"h", "t", "t", "p", ":", "/", "/", "x", "/", "u", ".", "j", "p", "g">>
u_https   == <<"h", "t", "t", "p", "s", ":", "/", "/", "x", "/", "v", ".", "P", "N", "G">>

LocalPaths == { p_a_png, p_b_JPG, p_c_jpeg, p_d_GiF, p_e_WEBP, p_f_bmp, p_g,
                p_dotpng, p_dir, p_k_jpg, p_m_gif, p_s_png, p_HTTP }
Urls       == { u_http, u_https }
Sources    == LocalPaths \cup Urls

Prompts == { "Describe", "Compare" }
Details == { "auto", "high", "ultra" }

\* The values os.getenv("OPENAI_API_KEY") can give: unset, empty, a key.
ApiKeys == { <<>>, <<"">>, <<"sk-test">> }

\* open(image_path, "rb").read(): what the file system holds at each path.
\* Two paths do not exist, one cannot be opened, the others hold 0..5 bytes.
file_system(path) ==
    CASE path = p_a_png  -> [kind |-> "bytes", data |-> <<137, 80, 78>>]
      [] path = p_b_JPG  -> [kind |-> "bytes", data |-> <<255>>]
      [] path = p_c_jpeg -> [kind |-> "bytes", data |-> <<255, 216>>]
      [] path = p_d_GiF  -> [kind |-> "bytes", data |-> <<71, 73, 70, 56>>]
      [] path = p_e_WEBP -> [kind |-> "bytes", data |-> <<>>]
      [] path = p_f_bmp  -> [kind |-> "bytes", data |-> <<66, 77>>]
      [] path = p_g      -> [kind |-> "bytes", data |-> <<0>>]
      [] path = p_dotpng -> [kind |-> "bytes", data |-> <<1, 2, 3>>]
      [] path = p_dir    -> [kind |-> "bytes", data |-> <<251, 239, 190>>]
      [] path = p_k_jpg  -> [kind |-> "bytes", data |-> <<255, 216, 255, 224, 0>>]
      [] path = p_s_png  -> [kind |-> "PermissionError", data |-> <<>>]
      [] OTHER           -> [kind |-> "FileNotFoundError", data |-> <<>>]

\* Objects the remote call can return.  An attribute is <<v>>, or <<>> when
\* the object lacks it.
usage_full ==
    [prompt_tokens |-> <<12>>, completion_tokens |-> <<30>>, total_tokens |-> <<42>>]

message_of(text) == [role |-> <<"assistant">>, content |-> <<text>>]

choice_of(i, text) ==
    [index |-> <<i>>, message |-> <<message_of(text)>>, finish_reason |-> <<"stop">>]

resp_full ==
    [id |-> <<"chatcmpl-1">>, model |-> <<"gpt-4o-2024">>, created |-> <<1700>>,
     choices |-> << <<choice_of(0, "A boardwalk")>> >>, usage |-> <<usage_full>>]

resp_two ==
    [resp_full EXCEPT !.choices =
        << <<choice_of(0, "Two cats"), choice_of(1, "Two dogs")>> >>]

Responses ==
    { resp_full,
      resp_two,
      \* attributes read only by the dump
      [resp_full EXCEPT !.id = <<>>],
      [resp_full EXCEPT !.created = <<>>],
      [resp_full EXCEPT !.choices =
          << <<[choice_of(0, "A boardwalk") EXCEPT !.index = <<>>]>> >>],
      [resp_full EXCEPT !.choices =
          << <<[choice_of(0, "A boardwalk") EXCEPT !.finish_reason = <<>>]>> >>],
      [resp_full EXCEPT !.choices =
          << <<[choice_of(0, "A boardwalk") EXCEPT
                   !.message = <<[role |-> <<>>, content |-> <<"A boardwalk">>]>>]>> >>],
      [resp_full EXCEPT !.choices =
          << <<choice_of(0, "Two cats"),
               [choice_of(1, "Two dogs") EXCEPT !.message = <<>>]>> >>],
      \* attributes the returned dict needs
      [resp_full EXCEPT !.model = <<>>],
      [resp_full EXCEPT !.usage = <<>>],
      [resp_full EXCEPT !.usage =
          <<[usage_full EXCEPT !.prompt_tokens = <<>>]>>],
      [resp_full EXCEPT !.choices =
          << <<[choice_of(0, "A boardwalk") EXCEPT
                   !.message = <<[role |-> <<"assistant">>, content |-> <<>>]>>]>> >>],
      [resp_full EXCEPT !.choices = << <<>> >>] }

\* str(e) of the exceptions the remote call raises.
TransportErrors ==
    { <<"Connection error.">>, <<"Error code: 401 - Incorrect API key provided">> }

\* ------------------------------------------------------- encode_image_to_base64

Returned(v)        == [raises |-> FALSE, value |-> v, type |-> "", message |-> <<>>]
Raises(t, message) == [raises |-> TRUE, value |-> <<>>, type |-> t, message |-> message]

\* encode_image_to_base64, with a read failure swallowed: the empty string
\* is returned instead of raising
encode_swallow(image_path) ==
    LET f == file_system(image_path)
    IN  IF f.kind = "bytes" THEN Returned(b64encode(f.data)) ELSE Returned(<<>>)

\* The outcome of encode_image_to_base64(image_path): the encoded contents,
\* FileNotFoundError with the path, or Exception wrapping any other cause.
encode_image_to_base64(image_path) ==
    LET f == file_system(image_path)
    IN  CASE f.kind = "bytes" -> Returned(b64encode(f.data))
          [] f.kind = "FileNotFoundError" ->
                Raises("FileNotFoundError", <<"Image file not found: ">> \o image_path)
          [] OTHER ->
                Raises("Exception",
                       <<"Error encoding image: ", "[Errno 13] Permission denied: ">>
                           \o image_path)

\* ----------------------------------------------------------- request assembly

\* mime_types.get(file_ext, 'image/jpeg')
mime_types_get(file_ext) ==
    CASE file_ext = <<".", "j", "p", "g">>      -> "image/jpeg"
      [] file_ext = <<".", "j", "p", "e", "g">> -> "image/jpeg"
      [] file_ext = <<".", "p", "n", "g">>      -> "image/png"
      [] file_ext = <<".", "g", "i", "f">>      -> "image/gif"
      [] file_ext = <<".", "w", "e", "b", "p">> -> "image/webp"
      [] OTHER                                  -> "image/jpeg"

\* analyze_image_from_file: file_ext = Path(image_path).suffix.lower(), then
\* the table lookup
file_mime_type(image_path) == mime_types_get(lower(path_suffix(image_path)))

\* analyze_multiple_images: the same two statements, inside the loop
many_mime_type(source) == mime_types_get(lower(path_suffix(source)))

\* f"data:{mime_type};base64,{base64_image}"
data_uri(mime, b64) == <<"data:", mime, ";base64,">> \o b64

text_block(p) == [type |-> "text", text |-> p]

\* an image block with an explicit detail (single-image operations)
image_block_detail(url, d) ==
    [type |-> "image_url", image_url |-> [url |-> url, detail |-> d]]

\* the multi-image block, with the single-image block's detail copied in
image_block_auto(url) ==
    [type |-> "image_url", image_url |-> [url |-> url, detail |-> "auto"]]

\* an image block without a detail (analyze_multiple_images)
image_block(url) == [type |-> "image_url", image_url |-> [url |-> url]]

max_tokens_single == 1000
max_tokens_many   == 1500

\* the keyword arguments of client.chat.completions.create
create_request(c, max_tokens) ==
    [model |-> "gpt-4o",
     messages |-> << [role |-> "user", content |-> c] >>,
     max_tokens |-> max_tokens]

\* the test `source.startswith('http://') or source.startswith('https://')`
is_url(source) ==
    \/ startswith(source, <<"h", "t", "t", "p", ":", "/", "/">>)
    \/ startswith(source, <<"h", "t", "t", "p", "s", ":", "/", "/">>)

\* ------------------------------------------------------ response normalization

AttributeError(name) == <<"object has no attribute ", name>>
IndexError           == <<"list index out of range">>

opt(name, attr) == IF attr = <<>> THEN <<name>> ELSE <<>>

\* The attributes the dump reads of one choice that the choice lacks, in the
\* order the dict display reads them.
choice_missing(c) ==
    opt("index", c.index)
    \o (IF c.message = <<>> THEN <<"message">>
        ELSE opt("role", c.message[1].role) \o opt("content", c.message[1].content))
    \o opt("finish_reason", c.finish_reason)

RECURSIVE choices_missing(_)
choices_missing(cs) ==
    IF cs = <<>> THEN <<>> ELSE choice_missing(Head(cs)) \o choices_missing(Tail(cs))

\* The attributes the construction of response_dict reads and the response
\* lacks, in evaluation order: id, model, created, every choice, usage.
dump_missing(r) ==
    opt("id", r.id) \o opt("model", r.model) \o opt("created", r.created)
    \o (IF r.choices = <<>> THEN <<"choices">> ELSE choices_missing(r.choices[1]))
    \o (IF r.usage = <<>> THEN <<"usage">>
        ELSE opt("prompt_tokens", r.usage[1].prompt_tokens)
             \o opt("completion_tokens", r.usage[1].completion_tokens)
             \o opt("total_tokens", r.usage[1].total_tokens))

\* Building and printing response_dict: completes, or raises at the first
\* attribute the response lacks.
response_dict(r) ==
    IF dump_missing(r) = <<>>
    THEN Returned(<<"printed">>)
    ELSE Raises("AttributeError", AttributeError(Head(dump_missing(r))))

\* What evaluating response.choices[0].message.content raises, <<>> if nothing.
first_content_error(r) ==
    IF r.choices = <<>> THEN AttributeError("choices")
    ELSE IF r.choices[1] = <<>> THEN IndexError
    ELSE IF r.choices[1][1].message = <<>> THEN AttributeError("message")
    ELSE IF r.choices[1][1].message[1].content = <<>> THEN AttributeError("content")
    ELSE <<>>

\* The attributes the dict returned by the single-image operations reads after
\* the analysis, and the response lacks, in evaluation order.
single_missing(r) ==
    opt("model", r.model)
    \o (IF r.usage = <<>> THEN <<"usage">>
        ELSE opt("total_tokens", r.usage[1].total_tokens)
             \o opt("prompt_tokens", r.usage[1].prompt_tokens)
             \o opt("completion_tokens", r.usage[1].completion_tokens))

\* The dict the single-image operations return on success.
single_result(r) ==
    IF first_content_error(r) # <<>>
    THEN Raises("Error", first_content_error(r))
    ELSE IF single_missing(r) # <<>>
    THEN Raises("AttributeError", AttributeError(Head(single_missing(r))))
    ELSE Returned([success |-> TRUE,
                   analysis |-> r.choices[1][1].message[1].content[1],
                   model |-> r.model[1],
                   tokens_used |-> r.usage[1].total_tokens[1],
                   prompt_tokens |-> r.usage[1].prompt_tokens[1],
                   completion_tokens |-> r.usage[1].completion_tokens[1]])

\* The attributes the dict returned by analyze_multiple_images reads after the
\* analysis, and the response lacks.
many_missing(r) ==
    IF r.usage = <<>> THEN <<"usage">>
    ELSE opt("total_tokens", r.usage[1].total_tokens)

\* many_result, with tokens_used taken from the completion counter
many_result_completion(r) ==
    IF first_content_error(r) # <<>>
    THEN Raises("Error", first_content_error(r))
    ELSE IF many_missing(r) # <<>>
    THEN Raises("AttributeError", AttributeError(Head(many_missing(r))))
    ELSE Returned([success |-> TRUE,
                   analysis |-> r.choices[1][1].message[1].content[1],
                   tokens_used |-> r.usage[1].completion_tokens[1]])

\* The dict analyze_multiple_images returns on success.
many_result(r) ==
    IF first_content_error(r) # <<>>
    THEN Raises("Error", first_content_error(r))
    ELSE IF many_missing(r) # <<>>
    THEN Raises("AttributeError", AttributeError(Head(many_missing(r))))
    ELSE Returned([success |-> TRUE,
                   analysis |-> r.choices[1][1].message[1].content[1],
                   tokens_used |-> r.usage[1].total_tokens[1]])

\* error_result, with a success-branch field left in the failure dict
error_result_partial(message) ==
    [success |-> FALSE, error |-> message, analysis |-> ""]

\* The dict the except clause returns: str(e) under 'error'.
error_result(message) == [success |-> FALSE, error |-> message]

\* ------------------------------------------------------------------ steps

Event(kind, arg) == [kind |-> kind, arg |-> arg]

ValueError == <<"OPENAI_API_KEY environment variable not set">>

\* the credential test written `api_key is None`
not_api_key_none_only(k) == k = <<>>

\* `not api_key`: os.getenv gave None or the empty string
not_api_key(k) == k = <<>> \/ k = <<"">>

Init ==
    /\ api_key \in ApiKeys
    /\ pc = "idle"
    /\ op = ""
    /\ sources = <<>>
    /\ prompt = ""
    /\ detail = ""
    /\ idx = 0
    /\ content = <<>>
    /\ mime_type = ""
    /\ base64_image = <<>>
    /\ response = <<>>
    /\ ret = <<>>
    /\ raised = <<>>
    /\ requests = <<>>
    /\ events = <<>>

\* A caller enters operation o: fresh locals, nothing returned yet.
Enter(o, srcs, p, d) ==
    /\ pc = "idle"
    /\ op' = o
    /\ sources' = srcs
    /\ prompt' = p
    /\ detail' = d
    /\ idx' = 0
    /\ content' = <<>>
    /\ mime_type' = ""
    /\ base64_image' = <<>>
    /\ response' = <<>>
    /\ ret' = <<>>
    /\ raised' = <<>>
    /\ requests' = <<>>
    /\ events' = <<>>
    /\ pc' = "getenv"
    /\ UNCHANGED api_key

\* api_key = os.getenv(...); if not api_key: raise ValueError(...), outside
\* the try statement; otherwise the client is built and the try is entered.
CheckKey(o, next) ==
    /\ pc = "getenv"
    /\ op = o
    /\ events' = Append(events, Event("getenv", <<>>))
    /\ IF not_api_key(api_key)
       THEN /\ raised' = <<[type |-> "ValueError", message |-> ValueError]>>
            /\ pc' = "done"
       ELSE /\ raised' = raised
            /\ pc' = next
    /\ UNCHANGED <<api_key, op, sources, prompt, detail, idx, content, mime_type,
                   base64_image, response, ret, requests>>

\* except Exception as e: return {'success': False, 'error': str(e)}
Except(message) ==
    /\ ret' = <<error_result(message)>>
    /\ pc' = "done"

\* Create, with one retry: a first call that raises is issued again
Create_retry(c, max_tokens) ==
    /\ content' = c
    /\ requests' = Append(requests, create_request(c, max_tokens))
    /\ events' = Append(events, Event("create", <<>>))
    /\ \/ \E r \in Responses :
            /\ response' = <<r>>
            /\ ret' = ret
            /\ pc' = "created"
       \/ \E e \in TransportErrors :
            /\ response' = response
            /\ IF requests = <<>>
               THEN UNCHANGED <<ret, pc>>
               ELSE Except(e)
    /\ UNCHANGED <<api_key, op, sources, prompt, detail, idx, mime_type,
                   base64_image, raised>>

\* response = client.chat.completions.create(...): one request is submitted;
\* the call returns a response object or raises.
Create(c, max_tokens) ==
    /\ content' = c
    /\ requests' = Append(requests, create_request(c, max_tokens))
    /\ events' = Append(events, Event("create", <<>>))
    /\ \/ \E r \in Responses :
            /\ response' = <<r>>
            /\ ret' = ret
            /\ pc' = "created"
       \/ \E e \in TransportErrors :
            /\ response' = response
            /\ Except(e)
    /\ UNCHANGED <<api_key, op, sources, prompt, detail, idx, mime_type,
                   base64_image, raised>>

\* The dump of the raw response (single-image operations).
Dump(o) ==
    /\ pc = "created"
    /\ op = o
    /\ LET d == response_dict(response[1])
       IN  IF d.raises
           THEN Except(d.message)
           ELSE /\ ret' = ret
                /\ pc' = "return"
    /\ UNCHANGED <<api_key, op, sources, prompt, detail, idx, content, mime_type,
                   base64_image, response, raised, requests, events>>

\* The return statement of the try body: the dict is built from the response.
Return(result) ==
    /\ IF result.raises
       THEN Except(result.message)
       ELSE /\ ret' = <<result.value>>
            /\ pc' = "done"
    /\ UNCHANGED <<api_key, op, sources, prompt, detail, idx, content, mime_type,
                   base64_image, response, raised, requests, events>>

\* The operation has returned or raised: the caller has the outcome and the
\* call's locals are discarded.
Finish ==
    /\ pc = "done"
    /\ pc' = "idle"
    /\ op' = ""
    /\ sources' = <<>>
    /\ prompt' = ""
    /\ detail' = ""
    /\ idx' = 0
    /\ content' = <<>>
    /\ mime_type' = ""
    /\ base64_image' = <<>>
    /\ response' = <<>>
    /\ ret' = <<>>
    /\ raised' = <<>>
    /\ requests' = <<>>
    /\ events' = <<>>
    /\ UNCHANGED api_key

\* ---- analyze_image_from_url

UrlCall ==
    /\ pc = "idle"
    /\ \E u \in Sources, p \in Prompts, d \in Details : Enter("url", <<u>>, p, d)

UrlCheckKey == CheckKey("url", "create")

UrlCreate ==
    /\ pc = "create"
    /\ op = "url"
    /\ Create(<<text_block(prompt), image_block_detail(sources[1], detail)>>,
              max_tokens_single)

UrlDump == Dump("url")

UrlReturn ==
    /\ pc = "return"
    /\ op = "url"
    /\ Return(single_result(response[1]))

\* ---- analyze_image_from_file

FileCall ==
    /\ pc = "idle"
    /\ \E f \in Sources, p \in Prompts, d \in Details : Enter("file", <<f>>, p, d)

FileCheckKey == CheckKey("file", "encode")

\* FileEncode, with the file opened a second time after it was encoded
FileEncode_twice ==
    /\ pc = "encode"
    /\ op = "file"
    /\ LET e == encode_image_to_base64(sources[1])
       IN  IF e.raises
           THEN /\ events' = Append(events, Event("open", sources[1]))
                /\ Except(e.message)
                /\ UNCHANGED <<base64_image, mime_type>>
           ELSE /\ events' = events \o <<Event("open", sources[1]),
                                          Event("open", sources[1])>>
                /\ base64_image' = e.value
                /\ mime_type' = file_mime_type(sources[1])
                /\ ret' = ret
                /\ pc' = "create"
    /\ UNCHANGED <<api_key, op, sources, prompt, detail, idx, content, response,
                   raised, requests>>

\* base64_image = encode_image_to_base64(image_path), then the media type
FileEncode ==
    /\ pc = "encode"
    /\ op = "file"
    /\ events' = Append(events, Event("open", sources[1]))
    /\ LET e == encode_image_to_base64(sources[1])
       IN  IF e.raises
           THEN /\ Except(e.message)
                /\ UNCHANGED <<base64_image, mime_type>>
           ELSE /\ base64_image' = e.value
                /\ mime_type' = file_mime_type(sources[1])
                /\ ret' = ret
                /\ pc' = "create"
    /\ UNCHANGED <<api_key, op, sources, prompt, detail, idx, content, response,
                   raised, requests>>

FileCreate ==
    /\ pc = "create"
    /\ op = "file"
    /\ Create(<<text_block(prompt),
                image_block_detail(data_uri(mime_type, base64_image), detail)>>,
              max_tokens_single)

FileDump == Dump("file")

FileReturn ==
    /\ pc = "return"
    /\ op = "file"
    /\ Return(single_result(response[1]))

\* ---- analyze_multiple_images

ManyCall ==
    /\ pc = "idle"
    /\ \E n \in 0..MaxSources :
        \E srcs \in [1..n -> Sources], p \in Prompts : Enter("many", srcs, p, "")

ManyCheckKey == CheckKey("many", "begin")

\* content = [{"type": "text", "text": prompt}]
ManyBegin ==
    /\ pc = "begin"
    /\ op = "many"
    /\ content' = <<text_block(prompt)>>
    /\ pc' = "loop"
    /\ UNCHANGED <<api_key, op, sources, prompt, detail, idx, mime_type,
                   base64_image, response, ret, raised, requests, events>>

\* One iteration of `for source in image_sources`.
ManyLoop ==
    /\ pc = "loop"
    /\ op = "many"
    /\ idx < Len(sources)
    /\ LET source == sources[idx + 1]
       IN  IF is_url(source)
           THEN /\ content' = Append(content, image_block(source))
                /\ idx' = idx + 1
                /\ UNCHANGED <<events, ret, pc>>
           ELSE /\ events' = Append(events, Event("open", source))
                /\ LET e == encode_image_to_base64(source)
                   IN  IF e.raises
                       THEN /\ Except(e.message)
                            /\ UNCHANGED <<content, idx>>
                       ELSE /\ content' = Append(content,
                                 image_block(data_uri(many_mime_type(source), e.value)))
                            /\ idx' = idx + 1
                            /\ UNCHANGED <<ret, pc>>
    /\ UNCHANGED <<api_key, op, sources, prompt, detail, mime_type, base64_image,
                   response, raised, requests>>

ManyCreate ==
    /\ pc = "loop"
    /\ op = "many"
    /\ idx = Len(sources)
    /\ Create(content, max_tokens_many)

ManyReturn ==
    /\ pc = "created"
    /\ op = "many"
    /\ Return(many_result(response[1]))

Next ==
    \/ UrlCall \/ UrlCheckKey \/ UrlCreate \/ UrlDump \/ UrlReturn
    \/ FileCall \/ FileCheckKey \/ FileEncode \/ FileCreate \/ FileDump \/ FileReturn
    \/ ManyCall \/ ManyCheckKey \/ ManyBegin \/ ManyLoop \/ ManyCreate \/ ManyReturn
    \/ Finish

Spec == Init /\ [][Next]_vars

\* ----------------------------------------------------------------- properties

\* The positions in the event log of the events of one kind.
EventsOf(kind) == { i \in DOMAIN events : events[i].kind = kind }

KeyAbsent == api_key = <<>> \/ api_key = <<"">>

\* Whether the file system lets the path be read in full.
Readable(path) == file_system(path).kind = "bytes"

\* The scheme test, on the characters of the source.
HasHttpScheme(src) ==
    \/ Len(src) >= 7 /\ SubSeq(src, 1, 7) = <<"h", "t", "t", "p", ":", "/", "/">>
    \/ Len(src) >= 8 /\ SubSeq(src, 1, 8) = <<"h", "t", "t", "p", "s", ":", "/", "/">>

\* A read of the running call failed.
ReadFailed == \E i \in EventsOf("open") : ~Readable(events[i].arg)

\* The remote call of the running call raised.
TransportFailed == pc = "done" /\ EventsOf("create") # {} /\ response = <<>>

SuccessFields == {"analysis", "model", "tokens_used", "prompt_tokens", "completion_tokens"}

\* C1 (as claimed): no operation lets an exception reach the caller; after a
\* forced failure (credential absent, local path unreadable, remote call
\* raising) the operation has returned a dict with success False and a
\* non-empty error string.
C1_NeverRaises ==
    pc = "done" =>
        /\ raised = <<>>
        /\ (KeyAbsent \/ ReadFailed \/ TransportFailed) =>
               /\ ret # <<>>
               /\ ret[1].success = FALSE
               /\ ret[1].error # <<>>

\* C2: the credential is looked up before any file is opened and before the
\* remote service is called, and with the credential absent no file is opened
\* and the remote service is not called.
C2_CredentialBeforeIO ==
    /\ \A i \in EventsOf("open") \cup EventsOf("create") :
           \E j \in EventsOf("getenv") : j < i
    /\ KeyAbsent => EventsOf("open") = {} /\ EventsOf("create") = {} /\ requests = <<>>

C2_Witness ==
    /\ pc = "done"
    /\ KeyAbsent
    /\ op = "many"
    /\ Len(sources) = 2
    /\ ~HasHttpScheme(sources[1])
    /\ raised # <<>>

\* C3: an operation calls the remote service at most once; it has called it
\* exactly once when it ends with the credential present and every payload
\* built; a remote call that raised is not issued again.
C3_RemoteCallOnce ==
    /\ Cardinality(EventsOf("create")) <= 1
    /\ Len(requests) = Cardinality(EventsOf("create"))
    /\ (pc = "done" /\ ~KeyAbsent /\ ~ReadFailed) => Cardinality(EventsOf("create")) = 1
    /\ TransportFailed => Len(requests) = 1

C3_Witness ==
    /\ TransportFailed
    /\ op = "many"
    /\ Len(sources) = 2
    /\ ret # <<>>
    /\ ret[1].success = FALSE

\* C4 (as claimed): a dict returned with success True, by any of the three
\* operations, carries the first choice's text, the model and the three
\* token counters of the response.
C4_AllOperationsCarryAll ==
    (pc = "done" /\ ret # <<>> /\ ret[1].success) =>
        /\ SuccessFields \subseteq DOMAIN ret[1]
        /\ ret[1].analysis = response[1].choices[1][1].message[1].content[1]
        /\ ret[1].model = response[1].model[1]
        /\ ret[1].tokens_used = response[1].usage[1].total_tokens[1]
        /\ ret[1].prompt_tokens = response[1].usage[1].prompt_tokens[1]
        /\ ret[1].completion_tokens = response[1].usage[1].completion_tokens[1]

\* C4 (amended): a dict returned with success True carries the first choice's
\* text and the total token counter of the response; the single-image
\* operations also carry the model and the prompt and completion counters,
\* analyze_multiple_images carries nothing else.
C4_SuccessCarries ==
    (pc = "done" /\ ret # <<>> /\ ret[1].success) =>
        /\ response # <<>>
        /\ ret[1].analysis = response[1].choices[1][1].message[1].content[1]
        /\ ret[1].tokens_used = response[1].usage[1].total_tokens[1]
        /\ IF op = "many"
           THEN DOMAIN ret[1] = {"success", "analysis", "tokens_used"}
           ELSE /\ DOMAIN ret[1] = {"success"} \cup SuccessFields
                /\ ret[1].model = response[1].model[1]
                /\ ret[1].prompt_tokens = response[1].usage[1].prompt_tokens[1]
                /\ ret[1].completion_tokens = response[1].usage[1].completion_tokens[1]

C4_Witness ==
    /\ pc = "done"
    /\ op = "many"
    /\ ret # <<>>
    /\ ret[1].success
    /\ Len(response[1].choices[1]) = 2

\* The image block the content list holds for one source: a URL source
\* verbatim, a local source as data:<media type>;base64,<its bytes encoded>;
\* no detail.
C5_BlockFor(src, b) ==
    /\ DOMAIN b = {"type", "image_url"}
    /\ b.type = "image_url"
    /\ DOMAIN b.image_url = {"url"}
    /\ LET u == b.image_url.url
       IN  IF HasHttpScheme(src)
           THEN u = src
           ELSE /\ Len(u) >= 3
                /\ u[1] = "data:"
                /\ u[2] \in {"image/jpeg", "image/png", "image/gif", "image/webp"}
                /\ u[3] = ";base64,"
                /\ SubSeq(u, 4, Len(u)) = b64encode(file_system(src).data)

\* C5: the request analyze_multiple_images submits for n sources has a content
\* list of n + 1 blocks: the prompt's text block, then one image block per
\* source in input order, a URL source verbatim and a local source inline,
\* none with a detail.
C5_ManyContent ==
    op = "many" =>
        \A k \in DOMAIN requests :
            LET c == requests[k].messages[1].content
            IN  /\ Len(requests[k].messages) = 1
                /\ Len(c) = Len(sources) + 1
                /\ c[1] = [type |-> "text", text |-> prompt]
                /\ \A i \in 1..Len(sources) : C5_BlockFor(sources[i], c[i + 1])

C5_Witness ==
    /\ op = "many"
    /\ sources = <<p_a_png, u_http>>
    /\ Len(requests) = 1
    /\ pc = "done"

\* C6 (as claimed): an operation opens at most one file and calls the remote
\* service at most once.
C6_OneReadOneCall ==
    /\ Cardinality(EventsOf("open")) <= 1
    /\ Cardinality(EventsOf("create")) <= 1

\* The local sources among the first n sources, in order.
RECURSIVE LocalPrefix(_, _)
LocalPrefix(srcs, n) ==
    IF n = 0 THEN <<>>
    ELSE LocalPrefix(srcs, n - 1)
         \o (IF HasHttpScheme(srcs[n]) THEN <<>> ELSE <<srcs[n]>>)

\* The paths opened by the running call, in order.
RECURSIVE OpenedFrom(_)
OpenedFrom(i) ==
    IF i > Len(events) THEN <<>>
    ELSE (IF events[i].kind = "open" THEN <<events[i].arg>> ELSE <<>>)
         \o OpenedFrom(i + 1)

\* C6 (amended): an operation calls the remote service at most once;
\* analyze_image_from_url opens no file, analyze_image_from_file opens its
\* path at most once, and analyze_multiple_images opens each local source at
\* most once, in input order.
C6_OneReadPerLocalSource ==
    /\ Cardinality(EventsOf("create")) <= 1
    /\ op = "url" => EventsOf("open") = {}
    /\ op = "file" => OpenedFrom(1) \in {<<>>, <<sources[1]>>}
    /\ op = "many" =>
           \E n \in 0..Len(sources) : OpenedFrom(1) = LocalPrefix(sources, n)

C6_Witness ==
    /\ pc = "done"
    /\ op = "many"
    /\ Cardinality(EventsOf("open")) = 2
    /\ Cardinality(EventsOf("create")) = 1
    /\ ret # <<>>
    /\ ret[1].success

\* C7: a returned dict with success True has analysis and no error; one with
\* success False has error and none of the success fields.
C7_GatedBySuccess ==
    ret # <<>> =>
        IF ret[1].success
        THEN "analysis" \in DOMAIN ret[1] /\ "error" \notin DOMAIN ret[1]
        ELSE "error" \in DOMAIN ret[1] /\ DOMAIN ret[1] \cap SuccessFields = {}

C7_Witness ==
    /\ pc = "done"
    /\ ret # <<>>
    /\ ret[1].success = FALSE
    /\ response # <<>>
    /\ op = "file"

\* The media type of each local path by its extension: the table's type for
\* .jpg .jpeg .png .gif .webp in any letter case, image/jpeg for any other
\* extension and for a name without one.
C8_MediaType(path) ==
    CASE path = p_a_png  -> "image/png"
      [] path = p_b_JPG  -> "image/jpeg"
      [] path = p_c_jpeg -> "image/jpeg"
      [] path = p_d_GiF  -> "image/gif"
      [] path = p_e_WEBP -> "image/webp"
      [] path = p_f_bmp  -> "image/jpeg"
      [] path = p_g      -> "image/jpeg"
      [] path = p_dotpng -> "image/jpeg"
      [] path = p_dir    -> "image/jpeg"
      [] path = p_k_jpg  -> "image/jpeg"
      [] path = p_m_gif  -> "image/gif"
      [] path = p_s_png  -> "image/png"
      [] path = p_HTTP   -> "image/png"

\* C8: the inline payload of a local path carries the media type of its
\* extension, matched in any letter case, image/jpeg when the extension is
\* another one or missing; analyze_image_from_file and
\* analyze_multiple_images agree.
C8_MediaTypeByExtension ==
    \A k \in DOMAIN requests :
        LET c == requests[k].messages[1].content
        IN  /\ op = "file" => c[2].image_url.url[2] = C8_MediaType(sources[1])
            /\ op = "many" =>
                   \A i \in 1..Len(sources) :
                       ~HasHttpScheme(sources[i]) =>
                           c[i + 1].image_url.url[2] = C8_MediaType(sources[i])

C8_Witness ==
    /\ op = "many"
    /\ Len(requests) = 1
    /\ sources = <<p_d_GiF, p_e_WEBP>>

\* C9 (as claimed): the dump does not change what a single-image operation
\* returns: a response from which the returned dict can be built gives that
\* dict, whatever the dump alone reads of it.
C9_DumpDoesNotAffectResult ==
    (pc = "done" /\ op \in {"url", "file"} /\ response # <<>>
        /\ first_content_error(response[1]) = <<>>
        /\ single_missing(response[1]) = <<>>) =>
        /\ ret # <<>>
        /\ ret[1].success

\* C10: with the credential present, a local source that cannot be read ends
\* the call: nothing is read after it, no request is submitted, and the dict
\* returned has success False and the read failure's message.
C10_ReadFailureStops ==
    \A i \in EventsOf("open") :
        ~Readable(events[i].arg) =>
            /\ i = Len(events)
            /\ requests = <<>>
            /\ pc = "done"
            /\ ret # <<>>
            /\ ret[1].success = FALSE
            /\ ret[1].error =
                   IF file_system(events[i].arg).kind = "FileNotFoundError"
                   THEN <<"Image file not found: ">> \o events[i].arg
                   ELSE <<"Error encoding image: ", "[Errno 13] Permission denied: ">>
                            \o events[i].arg

C10_Witness ==
    /\ op = "many"
    /\ pc = "done"
    /\ sources = <<p_m_gif, p_a_png>>
    /\ OpenedFrom(1) = <<p_m_gif>>
    /\ ret # <<>>

====
